---------------------------- MODULE Spec2Model ----------------------------
(***************************************************************************)
(* State-machine model of the logue-sdk user units of this repository:     *)
(*   - the feedback delay effect   (simple_delay/delay.c, lines 1-108)     *)
(*   - the multi-voice oscillator  (simple_delay/delay.c, lines 110-469,   *)
(*                                  class Osc<N>)                          *)
(*   - the saw/triangle oscillator (my-first-osc/first_osc.cpp/.hpp)       *)
(*                                                                         *)
(* Floats are modelled as decimal fixed-point numbers: the integer v       *)
(* stands for the float v / Unit.  Products are truncated toward zero.     *)
(***************************************************************************)
EXTENDS Integers, Naturals, Sequences, FiniteSets, TLC

VARIABLES
    delay_s,    \* static my_delay_t delay_s (delay.c:28), with g_my_buffer as .buffer
    xn,         \* the sample block handed to DELFX_PROCESS, overwritten in place
    xin,        \* history: the input pattern and frame count of that block
    taps,       \* history: the delayed sample each frame of that block read
    fresh,      \* history: the taps read from re-exposed cells on their first pass
    lastcall,   \* history: the entry point called last
    lastparam,  \* history: the arguments of the last DELFX_PARAM call
    scen,       \* history: progress of the fill / shorten / lengthen scenario
    echo,       \* history: the nonzero output frames since an impulse was fed
    ncalls      \* number of host calls made so far (bounded exploration)

delayVars == <<delay_s, xn, xin, taps, fresh, lastcall, lastparam, scen, echo, ncalls>>

VARIABLES
    params_,    \* Osc<N>::params_                      (delay.c:456)
    state_,     \* Osc<N>::state_                       (delay.c:457)
    ctxt,       \* the host's runtime context: the note it reports
    proc,       \* the Process call in progress: its position and its locals
    outbuf,     \* the samples that call has written so far
    hist,       \* history: what the claims about pending events refer to
    nblocks,    \* number of Process calls begun (bounded exploration)
    nevents     \* number of event callbacks made (bounded exploration)

oscVars == <<params_, state_, ctxt, proc, outbuf, hist, nblocks, nevents>>

VARIABLES
    s_osc,      \* static MyOsc s_osc                    (first_osc.cpp:13)
    cyc,        \* the OSC_CYCLE call in progress: its position and its locals
    yout,       \* the samples that call has written to yn so far
    yplan,      \* history: the samples of the block as fixed when its loop began
    ncycles,    \* number of OSC_CYCLE calls begun (bounded exploration)
    nparams     \* number of OSC_NOTEON and OSC_PARAM calls made (bounded exploration)

firstOscVars == <<s_osc, cyc, yout, yplan, ncycles, nparams>>

VARIABLES
    tri         \* a phase handed to osc_trif and the value returned, with the
                \* phase and value of the call before

triVars == <<tri>>

\* Square oscillator (square.cpp)
VARIABLES
    s_state,    \* static State s_state
    sqcyc,      \* the OSC_CYCLE call in progress: position, local copy of flags
    sqout,      \* per sample of the last OSC_CYCLE: threshold, phase, sig, *y
    sqinit,     \* OSC_INIT has been called
    sqcalls     \* number of entry-point calls made, OSC_INIT apart

squareVars == <<s_state, sqcyc, sqout, sqinit, sqcalls>>

(***************************************************************************)
(* Bounds of the model                                                     *)
(***************************************************************************)
\* The host's sample rate (osc_api.h k_samplerate, 48000 on the device),
\* scaled down to the smallest rate at which the 1 ms minimum delay time is
\* still a whole sample.
k_samplerate == 1000
\* Raw parameter values run over 0..RawMax (the q31 range 0..0x7FFFFFFF scaled).
RawMax == 2
\* Host calls explored per run of the delay.
MaxCalls == 2
\* Host calls explored per run of the delay-time scenario.
MaxTimeCalls == 5
\* Host calls explored per run of the impulse-response scenario.
MaxImpulseCalls == 4
\* Voices of the multi-voice oscillator (the template parameter N).
NVoices == 2
\* Frames per oscillator block: a block of one frame and a longer one.
OscFrameCounts == {1, 2}
\* Oscillator blocks explored per run.
MaxBlocks == 2
\* Event callbacks explored per run.
MaxEvents == 2
MaxSquareCalls == 3

\* Fixed-point image of the float 1.0f: three decimal digits.
Unit == 10 * 10 * 10

\* sizeof(float) on the target.
sizeof_float == 4

(***************************************************************************)
(* Float helpers                                                           *)
(***************************************************************************)
Abs(a) == IF a < 0 THEN -a ELSE a

\* a * b on floats: the fixed-point product, truncated toward zero.
Mul(a, b) ==
    LET p == a * b
    IN  IF p >= 0 THEN p \div Unit ELSE -((-p) \div Unit)

\* The fixed-point image of the decimal literal n/d (0.2f is Lit(2, 10)).
Lit(n, d) == (n * Unit) \div d

\* q31_to_f32: the host's raw parameter value as a float in [0, 1].
q31_to_f32(value) == (value * Unit) \div RawMax

\* linintf(fr, x0, x1) = x0 + fr * (x1 - x0)
linintf(fr, x0, x1) == x0 + Mul(fr, x1 - x0)

\* Conversion of a non-negative float to uint32_t: truncation.
f32_to_u32(a) == a \div Unit

RECURSIVE Pow2(_)
Pow2(n) == IF n = 0 THEN 1 ELSE 2 * Pow2(n - 1)

RECURSIVE BitLen(_)
\* number of binary digits of the magnitude m
BitLen(m) == IF m = 0 THEN 0 ELSE 1 + BitLen(m \div 2)

\* A float whose nbytes low-order bytes (little endian: the first bytes in
\* memory) are zeroed keeps its sign, its exponent and the leading
\* 24 - 8*nbytes digits of its significand: the magnitude is truncated to its
\* leading binary digits, and a nonzero value stays nonzero.
ZeroLowBytes(v, nbytes) ==
    LET m    == Abs(v)
        keep == IF 24 - 8 * nbytes < 1 THEN 1 ELSE 24 - 8 * nbytes
        drop == IF BitLen(m) > keep THEN Pow2(BitLen(m) - keep) ELSE 1
        t    == (m \div drop) * drop
    IN  IF nbytes = 0 THEN v ELSE IF v < 0 THEN -t ELSE t

(***************************************************************************)
(* Delay effect (delay.c:1-108)                                            *)
(***************************************************************************)
\* #define kDelayBufferSize (k_samplerate * 2)
kDelayBufferSize == k_samplerate * 2

Cells == 0 .. kDelayBufferSize - 1

\* memset(buf + start, 0, nbytes): zeroes nbytes BYTES from cell start on, that
\* is nbytes \div sizeof(float) whole cells and the low bytes of the next one.
memset(buf, start, nbytes) ==
    LET whole == nbytes \div sizeof_float
        rest  == nbytes % sizeof_float
    IN  [i \in Cells |->
            IF i >= start /\ i < start + whole THEN 0
            ELSE IF i = start + whole /\ rest > 0 THEN ZeroLowBytes(buf[i], rest)
            ELSE buf[i]]

\* Variant of init: the feedback gain is 0.5.
initHalfFeedback(buf) ==
    [buffer       |-> memset(buf, 0, kDelayBufferSize * sizeof_float),
     index        |-> 0,
     wet_mix      |-> Lit(5, 10),
     dry_mix      |-> Lit(5, 10),
     feedback     |-> Lit(5, 10),
     time_samples |-> f32_to_u32(Unit * k_samplerate)]

\* init(buf, buf_len)
init(buf) ==
    [ buffer       |-> memset(buf, 0, kDelayBufferSize * sizeof_float),
      index        |-> 0,
      wet_mix      |-> Lit(5, 10),
      dry_mix      |-> Lit(5, 10),
      feedback     |-> Lit(2, 10),
      time_samples |-> f32_to_u32(Unit * k_samplerate) ]

\* The number of bytes the time setter hands to memset.
TimeClearBytes(d, ts) == kDelayBufferSize - ts

\* Variant of SetTime: the write index is not re-wrapped into the new length.
SetTimeNoRewrap(d, percent) ==
    LET ts == f32_to_u32(k_samplerate * linintf(percent, Lit(1, 1000), Lit(19, 10)))
    IN  [d EXCEPT !.time_samples = ts,
                  !.buffer       = memset(d.buffer, ts, TimeClearBytes(d, ts))]

\* Variant of SetTime: the longest time is 2.1 s, more than the buffer holds.
SetTimeTooLong(d, percent) ==
    LET ts == f32_to_u32(k_samplerate * linintf(percent, Lit(1, 1000), Lit(21, 10)))
    IN  [d EXCEPT !.time_samples = ts,
                  !.index        = d.index % ts,
                  !.buffer       = memset(d.buffer, ts, TimeClearBytes(d, ts))]

\* case k_user_delfx_param_time
SetTime(d, percent) ==
    LET ts == f32_to_u32(k_samplerate * linintf(percent, Lit(1, 1000), Lit(19, 10)))
    IN  [d EXCEPT !.time_samples = ts,
                  !.index        = d.index % ts,
                  !.buffer       = memset(d.buffer, ts, TimeClearBytes(d, ts))]

\* case k_user_delfx_param_depth
\* Variant of the depth case: the value is added to the stored gain.
SetFeedbackAdds(d, percent) == [d EXCEPT !.feedback = @ + percent]

SetFeedback(d, percent) == [d EXCEPT !.feedback = percent]

\* case k_user_delfx_param_shift_depth
\* Variant of the shift_depth case: the dry mix is left as it was.
SetMixWetOnly(d, percent) == [d EXCEPT !.wet_mix = percent]

SetMix(d, percent) == [d EXCEPT !.wet_mix = percent, !.dry_mix = Unit - percent]

ParamIds == {"time", "depth", "shift_depth", "other"}

\* Variant of DELFX_PARAM: an unknown index is treated as the mix parameter.
ParamDefaultSetsMix(d, index, value) ==
    LET percent == q31_to_f32(value)
    IN  CASE index = "time"        -> SetTime(d, percent)
          [] index = "depth"       -> SetFeedback(d, percent)
          [] OTHER                 -> SetMix(d, percent)

\* DELFX_PARAM(index, value)
Param(d, index, value) ==
    LET percent == q31_to_f32(value)
    IN  CASE index = "time"        -> SetTime(d, percent)
          [] index = "depth"       -> SetFeedback(d, percent)
          [] index = "shift_depth" -> SetMix(d, percent)
          [] OTHER                 -> d

\* Variant of Frame: the cell is written before the output is mixed, so the
\* output carries the new cell value instead of the delayed sample.
FrameWriteFirst(st, k) ==
    LET d   == st.d
        dry == st.xn[2 * k - 1]
        wet == d.buffer[d.index]
        nb  == Mul(d.feedback, wet + dry)
        yn  == Mul(dry, d.dry_mix) + Mul(nb, d.wet_mix)
        ni  == (d.index + 1) % d.time_samples
    IN  [ d     |-> [d EXCEPT !.buffer[d.index] = nb, !.index = ni],
          xn    |-> [st.xn EXCEPT ![2 * k - 1] = yn, ![2 * k] = yn],
          taps  |-> Append(st.taps, wet),
          fresh |-> st.fresh,
          back  |-> st.back /\ ni # 0,
          L2    |-> st.L2 ]

\* One iteration of process()'s loop on frame k (1-based): st.d is delay_s and
\* st.xn the block.  History only: st.taps collects the delayed samples read,
\* st.fresh those read from a re-exposed cell (index >= st.L2) while st.back,
\* the first pass after the line was lengthened, lasts.
Frame(st, k) ==
    LET d   == st.d
        dry == st.xn[2 * k - 1]
        wet == d.buffer[d.index]
        yn  == Mul(dry, d.dry_mix) + Mul(wet, d.wet_mix)
        nb  == Mul(d.feedback, wet + dry)
        ni  == (d.index + 1) % d.time_samples
    IN  [ d     |-> [d EXCEPT !.buffer[d.index] = nb, !.index = ni],
          xn    |-> [st.xn EXCEPT ![2 * k - 1] = yn, ![2 * k] = yn],
          taps  |-> Append(st.taps, wet),
          fresh |-> IF st.back /\ d.index >= st.L2
                    THEN Append(st.fresh, [idx |-> d.index, wet |-> wet])
                    ELSE st.fresh,
          back  |-> st.back /\ ni # 0,
          L2    |-> st.L2 ]

RECURSIVE processLoop(_, _, _)
\* Frames lo .. lo+n-1 of the loop, in order: the first half, then the second
\* half from the state the first half leaves (s1 is bound to that state's value).
processLoop(st, lo, n) ==
    IF n = 0 THEN st
    ELSE IF n = 1 THEN Frame(st, lo)
    ELSE LET h == n \div 2
         IN  CHOOSE s2 \in { processLoop(s1, lo + h, n - h) :
                               s1 \in {processLoop(st, lo, h)} } : TRUE

\* process(xn, frames)
process(d, block, frames, sc) ==
    processLoop([d |-> d, xn |-> block, taps |-> <<>>, fresh |-> <<>>,
                 back |-> sc.stage = "back", L2 |-> sc.L2], 1, frames)

(***************************************************************************)
(* Host inputs of the delay                                                *)
(***************************************************************************)
\* Block lengths the host asks for: short blocks and one second of audio.
FrameCounts == {1, 2, k_samplerate}

Patterns == {"tone", "silence"}

\* Sample i (1-based, interleaved left/right) of an input block.
InSample(pat, i) ==
    IF pat = "silence" THEN 0
    ELSE IF pat = "impulse" THEN (IF i = 1 THEN Unit ELSE 0)
    ELSE IF i % 2 = 1 THEN Unit \div 4 ELSE -(Unit \div 4)

\* The block as a sequence of 2 * frames samples.
InBlock(pat, frames) ==
    SubSeq([i \in 1 .. 2 * frames |-> InSample(pat, i)], 1, 2 * frames)

(***************************************************************************)
(* History of the fill / shorten / lengthen scenario                       *)
(***************************************************************************)
NoScen == [stage |-> "none", L1 |-> 0, L2 |-> 0]

AllNonzero(d) == \A i \in 0 .. d.time_samples - 1 : d.buffer[i] # 0

ScenAfterProcess(sc, st) ==
    CASE sc.stage = "short" -> sc
      [] sc.stage = "back"  -> IF st.back THEN sc ELSE NoScen
      [] OTHER -> IF AllNonzero(st.d)
                  THEN [stage |-> "filled", L1 |-> st.d.time_samples, L2 |-> 0]
                  ELSE NoScen

ScenAfterParam(sc, index, old, new) ==
    IF index # "time" \/ new.time_samples = old.time_samples THEN sc
    ELSE CASE sc.stage = "filled" /\ new.time_samples < old.time_samples
                -> [stage |-> "short", L1 |-> sc.L1, L2 |-> new.time_samples]
           [] sc.stage = "short" /\ new.time_samples = sc.L1
                -> [sc EXCEPT !.stage = "back"]
           [] OTHER -> NoScen

(***************************************************************************)
(* History of the impulse response                                         *)
(***************************************************************************)
\* n: frames processed since (and with) the impulse frame; hits: the frames
\* among them whose output is not zero, in order, with both output samples.
NoEcho == [n |-> 0, hits |-> <<>>]

RECURSIVE SortedHits(_, _, _)
SortedHits(S, block, base) ==
    IF S = {} THEN <<>>
    ELSE LET k == CHOOSE x \in S : \A y \in S : x <= y
         IN  <<[at |-> base + k, l |-> block[2 * k - 1], r |-> block[2 * k]]>>
               \o SortedHits(S \ {k}, block, base)

EchoAfterProcess(e, block, frames) ==
    [n    |-> e.n + frames,
     hits |-> e.hits \o SortedHits({k \in 1 .. frames :
                                      block[2 * k - 1] # 0 \/ block[2 * k] # 0},
                                   block, e.n)]

(***************************************************************************)
(* Delay: the host's entry points                                          *)
(***************************************************************************)
ZeroBuffer == [i \in Cells |-> 0]

DelayInit ==
    /\ delay_s = init(ZeroBuffer)
    /\ xn = <<>>
    /\ xin = [pat |-> "silence", frames |-> 0]
    /\ taps = <<>>
    /\ fresh = <<>>
    /\ lastcall = "init"
    /\ lastparam = [index |-> "none", value |-> 0]
    /\ scen = NoScen
    /\ echo = NoEcho
    /\ ncalls = 0

\* DELFX_INIT(platform, api)
InitCall(limit) ==
    /\ ncalls < limit
    /\ delay_s' = init(delay_s.buffer)
    /\ lastcall' = "init"
    /\ scen' = NoScen
    /\ ncalls' = ncalls + 1
    /\ UNCHANGED <<xn, xin, taps, fresh, echo, lastparam>>
    /\ UNCHANGED <<oscVars, firstOscVars, triVars, squareVars>>

\* DELFX_PROCESS(xn, frames)
ProcessCall(limit) ==
    /\ ncalls < limit
    /\ \E frames \in FrameCounts, pat \in Patterns :
        \E st \in {process(delay_s, InBlock(pat, frames), frames, scen)} :
              /\ delay_s' = st.d
              /\ xn' = st.xn
              /\ xin' = [pat |-> pat, frames |-> frames]
              /\ taps' = st.taps
              /\ fresh' = st.fresh
              /\ scen' = ScenAfterProcess(scen, st)
    /\ lastcall' = "process"
    /\ ncalls' = ncalls + 1
    /\ UNCHANGED <<echo, lastparam>>
    /\ UNCHANGED <<oscVars, firstOscVars, triVars, squareVars>>

\* DELFX_PARAM(index, value)
ParamCall(ids, limit) ==
    /\ ncalls < limit
    /\ \E index \in ids, value \in 0 .. RawMax :
        \E d \in {Param(delay_s, index, value)} :
              /\ delay_s' = d
              /\ lastparam' = [index |-> index, value |-> value]
              /\ scen' = ScenAfterParam(scen, index, delay_s, d)
    /\ lastcall' = "param"
    /\ ncalls' = ncalls + 1
    /\ UNCHANGED <<xn, xin, taps, fresh, echo>>
    /\ UNCHANGED <<oscVars, firstOscVars, triVars, squareVars>>

DELFX_INIT == InitCall(MaxCalls)

DELFX_PROCESS == ProcessCall(MaxCalls)

DELFX_PARAM == ParamCall(ParamIds, MaxCalls)

DelayNext == DELFX_INIT \/ DELFX_PROCESS \/ DELFX_PARAM

\* The calls of the delay-time scenario, after initialize: processBlock and
\* time-parameter updates.
ProcessBlock == ProcessCall(MaxTimeCalls)

SetDelayTime == ParamCall({"time"}, MaxTimeCalls)

TimeNext == ProcessBlock \/ SetDelayTime

\* The impulse-response scenario: after initialize the delay time may be set
\* once; then one block that begins with a unit impulse on the left channel,
\* then blocks of silence.
ImpulseSetTime ==
    /\ lastcall = "init"
    /\ ParamCall({"time"}, 1)

ImpulseProcess ==
    /\ ncalls < MaxImpulseCalls
    /\ \E frames \in FrameCounts, pat \in {IF echo.n = 0 THEN "impulse" ELSE "silence"} :
        \E st \in {process(delay_s, InBlock(pat, frames), frames, scen)} :
              /\ delay_s' = st.d
              /\ xn' = st.xn
              /\ xin' = [pat |-> pat, frames |-> frames]
              /\ taps' = st.taps
              /\ fresh' = st.fresh
              /\ scen' = ScenAfterProcess(scen, st)
              /\ echo' = EchoAfterProcess(echo, st.xn, frames)
    /\ lastcall' = "process"
    /\ ncalls' = ncalls + 1
    /\ UNCHANGED lastparam
    /\ UNCHANGED <<oscVars, firstOscVars, triVars, squareVars>>

ImpulseNext == ImpulseSetTime \/ ImpulseProcess

(***************************************************************************)
(* Multi-voice oscillator Osc<N> (delay.c:110-468)                         *)
(***************************************************************************)
Voices == 0 .. NVoices - 1

\* static constexpr float kFactor = 1.0f / N
kFactor == Unit \div NVoices
kMinDetune == Lit(833, 10 * Unit)
kMaxDetune == Lit(8, 1)

\* The flag field as the set of its raised bits.
k_flags_none == {}
k_flag_reset == {"reset"}
k_flag_max_detune == {"max_detune"}

clipminmaxf(lo, x, hi) == IF x < lo THEN lo ELSE IF x > hi THEN hi ELSE x

clipminmaxi32(lo, x, hi) == IF x < lo THEN lo ELSE IF x > hi THEN hi ELSE x

\* param_10bit_to_f32: the clipped raw value 0 .. RawMax as a float in [0, 1].
param_10bit_to_f32(value) == (value * Unit) \div RawMax

\* fasterpow2f(x): 2^x, exact at whole x and interpolated linearly between.
fasterpow2f(x) ==
    LET p    == x \div Unit
        frac == x % Unit
    IN  IF p >= 0 THEN (Unit + frac) * Pow2(p) ELSE (Unit + frac) \div Pow2(-p)

\* osc_sawf(x): the sawtooth 2x - 1 over one cycle x in [0, 1).
osc_sawf(x) == 2 * x - Unit

\* The notes the host reports, as the 16-bit pitch word (note << 8 | mod).
Pitches == {60 * 256, 72 * 256}

\* osc_w0f_for_note(note, mod): the per-sample phase increment of a pitch,
\* increasing with the pitch.
osc_w0f_for_note(note, mod) ==
    Lit(3, 10) + ((((note - 60) * 256 + mod) * Lit(15, 100)) \div (12 * 256))

ZeroPhases == [i \in Voices |-> 0]

\* Params::reset()
ParamsReset(p) == [p EXCEPT !.shape = 0, !.alt = 0]

\* State::reset()
StateReset(s) == [s EXCEPT !.phi = ZeroPhases]

\* Variant of the detune offsets: the first voice sits at offset 0.
DetuneOffsetFromZero(max_detune, n, i) == i * (max_detune \div (n - 1))

\* updatePitch, lines 307-312: detune_i when voice i of n is reached, from
\* detune_i = -max_detune / 2 and i additions of max_detune / (n - 1).
DetuneOffset(max_detune, n, i) ==
    -(max_detune \div 2) + i * (max_detune \div (n - 1))

\* updatePitch(w) in an instance of n voices: the increments it stores.
Increments(n, alt, state_max_detune, w) ==
    IF n = 1
    THEN [i \in 0 .. 0 |-> w]
    ELSE LET detune_spread == clipminmaxf(0, alt, Unit)
             max_detune    == linintf(detune_spread, 0, state_max_detune)
         IN  [i \in 0 .. n - 1 |->
                 Mul(w, fasterpow2f(DetuneOffset(max_detune, n, i)))]

\* updatePitch(w)
updatePitch(s, p, w) ==
    [s EXCEPT !.w = Increments(NVoices, p.alt, s.max_detune, w)]

\* Variant of the block start: the increments are recomputed before
\* max_detune is.
ProcessUpdatePitchFirst(s, p, flags, pitch) ==
    LET s1 == updatePitch(s, p, osc_w0f_for_note(pitch \div 256, pitch % 256))
        s2 == IF k_flag_max_detune \subseteq flags
              THEN [s1 EXCEPT !.max_detune = linintf(p.shape, kMinDetune, kMaxDetune)]
              ELSE s1
    IN  IF k_flag_reset \subseteq flags THEN StateReset(s2) ELSE s2

\* Variant of the block start: the increments are recomputed only when a
\* flag was pending.
ProcessUpdateOnFlag(s, p, flags, pitch) ==
    LET s1 == IF k_flag_max_detune \subseteq flags
              THEN [s EXCEPT !.max_detune = linintf(p.shape, kMinDetune, kMaxDetune)]
              ELSE s
        s2 == IF flags = k_flags_none THEN s1
              ELSE updatePitch(s1, p, osc_w0f_for_note(pitch \div 256, pitch % 256))
    IN  IF k_flag_reset \subseteq flags THEN StateReset(s2) ELSE s2

\* The part of Process between the flag handling and the sample loop.
ProcessUpdate(s, p, flags, pitch) ==
    LET s1 == IF k_flag_max_detune \subseteq flags
              THEN [s EXCEPT !.max_detune = linintf(p.shape, kMinDetune, kMaxDetune)]
              ELSE s
        s2 == updatePitch(s1, p, osc_w0f_for_note(pitch \div 256, pitch % 256))
    IN  IF k_flag_reset \subseteq flags THEN StateReset(s2) ELSE s2

RECURSIVE SumSaw(_, _)
SumSaw(phi, n) == IF n = 0 THEN 0 ELSE SumSaw(phi, n - 1) + osc_sawf(phi[n - 1])

\* One pass of the sample loop: the sample written and the phases advanced.
SampleOf(phi) == Mul(SumSaw(phi, NVoices), kFactor)

\* Variant of the phase increment: the integer part is not subtracted.
AdvanceNoWrap(phi, w) == [i \in Voices |-> phi[i] + w[i]]

\* phi[i] += w[i]; phi[i] -= (uint32_t) phi[i]
Advance(phi, w) == [i \in Voices |-> (phi[i] + w[i]) % Unit]

\* A NoteOn that also zeroes the phases at once.
NoteOnResetsNow(s) == [s EXCEPT !.flags = @ \cup k_flag_reset, !.phi = ZeroPhases]

\* NoteOn(note, velo)
NoteOn(s) == [s EXCEPT !.flags = @ \cup k_flag_reset]

ParamIndex == {"SHAPE", "ALT", "NUM_PARAMS"}
\* Raw values the host sends: below range, mid range and above range.
RawValues == {-1, (RawMax + 1) \div 2, RawMax + 1}

\* setParameter(index, value): the parameters and the state it leaves.
setParameter(p, s, index, value) ==
    LET v == param_10bit_to_f32(clipminmaxi32(0, value, RawMax))
    IN  CASE index = "SHAPE" ->
                [p |-> [p EXCEPT !.shape = v],
                 s |-> [s EXCEPT !.flags = @ \cup k_flag_max_detune]]
          [] index = "ALT" -> [p |-> [p EXCEPT !.alt = v], s |-> s]
          [] OTHER -> [p |-> p, s |-> s]

RECURSIVE PlanPhases(_, _, _)
\* The phases the sample loop passes through in n frames from phi at rate w.
PlanPhases(phi, w, n) ==
    IF n = 0 THEN <<phi>> ELSE <<phi>> \o PlanPhases(Advance(phi, w), w, n - 1)

NoHist ==
    [plan       |-> <<>>,    \* phases fixed for the block when its loop began
     owedReset  |-> FALSE,   \* a NoteOn was made and no block zeroed the phases since
     owedDetune |-> FALSE,   \* a shape change was made and no block recomputed max_detune since
     lateNew    |-> FALSE,   \* a NoteOn was made in this block after it cleared the flags
     lateAt     |-> 0,       \* samples the block had written when that NoteOn came
     lateOld    |-> FALSE,   \* a NoteOn was made in the previous block after its clear, not yet honoured
     carried    |-> FALSE,   \* this block began with lateOld
     noteSince  |-> FALSE,   \* a NoteOn was made since the last read of the flags
     due        |-> FALSE,   \* a NoteOn was made between the previous read of the flags and this one
     didReset   |-> FALSE]   \* this block zeroed the phases

\* The object as constructed: Osc<N>(void) with the member initialisers.
OscInit ==
    /\ params_ = [shape |-> 0, alt |-> 0]
    /\ state_ = [phi |-> ZeroPhases, w |-> [i \in Voices |-> 0],
                 max_detune |-> kMinDetune, flags |-> k_flags_none]
    /\ ctxt = [pitch |-> 60 * 256]
    /\ proc = [pc |-> "idle", flags |-> k_flags_none, frames |-> 0]
    /\ outbuf = <<>>
    /\ hist = NoHist
    /\ nblocks = 0
    /\ nevents = 0

InBlockAfterClear == proc.pc \in {"update", "loop"}

\* Init(desc) with a descriptor that passes the checks
Osc_Init ==
    /\ proc.pc = "idle"
    /\ nevents < MaxEvents
    /\ params_' = ParamsReset(params_)
    /\ state_' = StateReset(state_)
    /\ nevents' = nevents + 1
    /\ UNCHANGED <<ctxt, proc, outbuf, hist, nblocks>>
    /\ UNCHANGED <<delayVars, firstOscVars, triVars, squareVars>>

\* NoteOn(note, velo), at any point of a block or between blocks
Osc_NoteOn ==
    /\ nevents < MaxEvents
    /\ state_' = NoteOn(state_)
    /\ hist' = [hist EXCEPT !.owedReset = TRUE, !.noteSince = TRUE,
                            !.lateNew = @ \/ InBlockAfterClear,
                            !.lateAt = IF ~hist.lateNew /\ InBlockAfterClear
                                       THEN Len(outbuf) ELSE @]
    /\ nevents' = nevents + 1
    /\ UNCHANGED <<params_, ctxt, proc, outbuf, nblocks>>
    /\ UNCHANGED <<delayVars, firstOscVars, triVars, squareVars>>

\* NoteOff(note)
Osc_NoteOff ==
    /\ nevents < MaxEvents
    /\ nevents' = nevents + 1
    /\ UNCHANGED <<params_, state_, ctxt, proc, outbuf, hist, nblocks>>
    /\ UNCHANGED <<delayVars, firstOscVars, triVars, squareVars>>

\* setParameter(index, value), at any point of a block or between blocks
Osc_setParameter ==
    /\ nevents < MaxEvents
    /\ \E index \in ParamIndex, value \in RawValues :
         \E r \in {setParameter(params_, state_, index, value)} :
            /\ params_' = r.p
            /\ state_' = r.s
            /\ hist' = [hist EXCEPT !.owedDetune = @ \/ index = "SHAPE"]
    /\ nevents' = nevents + 1
    /\ UNCHANGED <<ctxt, proc, outbuf, nblocks>>
    /\ UNCHANGED <<delayVars, firstOscVars, triVars, squareVars>>

\* Process(in, out, frames), line 325: const uint32_t flags = state_.flags
Process_ReadFlags ==
    /\ proc.pc = "idle"
    /\ nblocks < MaxBlocks
    /\ \E frames \in OscFrameCounts, pitch \in Pitches :
         /\ proc' = [pc |-> "clear", flags |-> state_.flags, frames |-> frames]
         /\ ctxt' = [pitch |-> pitch]
    /\ outbuf' = <<>>
    /\ hist' = [hist EXCEPT !.due = hist.noteSince, !.noteSince = FALSE,
                            !.didReset = FALSE, !.lateNew = FALSE, !.lateAt = 0,
                            !.lateOld = hist.lateOld \/ hist.lateNew,
                            !.carried = hist.lateOld \/ hist.lateNew]
    /\ nblocks' = nblocks + 1
    /\ UNCHANGED <<params_, state_, nevents>>
    /\ UNCHANGED <<delayVars, firstOscVars, triVars, squareVars>>

\* Process, line 326: state_.flags = k_flags_none
Process_ClearFlags ==
    /\ proc.pc = "clear"
    /\ state_' = [state_ EXCEPT !.flags = k_flags_none]
    /\ proc' = [proc EXCEPT !.pc = "update"]
    /\ UNCHANGED <<params_, ctxt, outbuf, hist, nblocks, nevents>>
    /\ UNCHANGED <<delayVars, firstOscVars, triVars, squareVars>>

\* Process, lines 328-340: max_detune, updatePitch, note reset
Process_Update ==
    /\ proc.pc = "update"
    /\ \E s \in {ProcessUpdate(state_, params_, proc.flags, ctxt.pitch)} :
         /\ state_' = s
         /\ hist' = [hist EXCEPT
                !.plan = PlanPhases(s.phi, s.w, proc.frames),
                !.didReset = k_flag_reset \subseteq proc.flags,
                !.owedReset = @ /\ ~(k_flag_reset \subseteq proc.flags),
                !.lateOld = @ /\ ~(k_flag_reset \subseteq proc.flags),
                !.owedDetune = @ /\ ~(k_flag_max_detune \subseteq proc.flags)]
    /\ proc' = [proc EXCEPT !.pc = "loop"]
    /\ UNCHANGED <<params_, ctxt, outbuf, nblocks, nevents>>
    /\ UNCHANGED <<delayVars, firstOscVars, triVars, squareVars>>

\* Process, lines 342-357: one pass of the sample loop
Process_Sample ==
    /\ proc.pc = "loop"
    /\ outbuf' = Append(outbuf, SampleOf(state_.phi))
    /\ state_' = [state_ EXCEPT !.phi = Advance(state_.phi, state_.w)]
    /\ proc' = [proc EXCEPT !.pc = IF Len(outbuf) + 1 = proc.frames
                                   THEN "idle" ELSE "loop"]
    /\ UNCHANGED <<params_, ctxt, hist, nblocks, nevents>>
    /\ UNCHANGED <<delayVars, firstOscVars, triVars, squareVars>>

OscNext ==
    \/ Osc_Init
    \/ Osc_NoteOn
    \/ Osc_NoteOff
    \/ Osc_setParameter
    \/ Process_ReadFlags
    \/ Process_ClearFlags
    \/ Process_Update
    \/ Process_Sample

(***************************************************************************)
(* Saw/triangle oscillator (first_osc.cpp, first_osc.hpp)                  *)
(***************************************************************************)
\* Variant of osc_trif: the middle segment is (0.75 - x) * 4.
osc_trif_shifted(x) ==
    IF x < Lit(25, 100) THEN x * 4
    ELSE IF x < Lit(75, 100) THEN (Lit(75, 100) - x) * 4
    ELSE (x - Unit) * 4

\* osc_trif(x)
osc_trif(x) ==
    IF x < Lit(25, 100) THEN x * 4
    ELSE IF x < Lit(75, 100) THEN (Lit(5, 10) - x) * 4
    ELSE (x - Unit) * 4

\* One in the q31 output format, scaled down to twenty fractional bits.
Q31One == Pow2(20)

\* f32_to_q31(f): the float scaled to the fixed-point output format,
\* truncated toward zero.
f32_to_q31(f) ==
    LET p == f * Q31One
    IN  IF p >= 0 THEN p \div Unit ELSE -((-p) \div Unit)

\* param_val_to_f32(value): the raw value 0 .. RawMax as a float in [0, 1].
param_val_to_f32(value) == (value * Unit) \div RawMax

\* MyOsc::updatePitch(w) of the single-voice instance
MyOsc_updatePitch(s, w) == [s EXCEPT !.w = w]

\* MyOsc::State::reset()
MyOsc_reset(s) == [s EXCEPT !.phi = 0]

\* OSC_CYCLE lines 51-56: the sample written at phase phi under the mix
\* parameter as it is when the pass runs.
CycleSample(phi, saw_tri_mix) ==
    LET wavemix == clipminmaxf(Lit(5, Unit), saw_tri_mix, Lit(995, Unit))
        sig     == Mul(Unit - wavemix, osc_sawf(phi)) + Mul(wavemix, osc_trif(phi))
    IN  f32_to_q31(sig)

RECURSIVE PlanSamples(_, _, _, _)
\* The samples of n frames from phase phi at rate w under one mix value.
PlanSamples(phi, w, mix, n) ==
    IF n = 0 THEN <<>>
    ELSE <<CycleSample(phi, mix)>> \o PlanSamples((phi + w) % Unit, w, mix, n - 1)

UserParamIds ==
    {"k_user_osc_param_id1", "k_user_osc_param_shape", "k_user_osc_param_shiftshape"}

\* Raw values the host sends with OSC_PARAM.
UserRawValues == {0, (RawMax + 1) \div 2, RawMax}

\* static MyOsc s_osc, as constructed
FirstOscInit ==
    /\ s_osc = [state  |-> [phi |-> 0, w |-> 0, flags |-> k_flags_none],
                params |-> [saw_tri_mix |-> 0, detune |-> 0]]
    /\ cyc = [pc |-> "idle", flags |-> k_flags_none, frames |-> 0,
              pitch |-> 60 * 256, phi |-> 0]
    /\ yout = <<>>
    /\ yplan = <<>>
    /\ ncycles = 0
    /\ nparams = 0

\* OSC_INIT(platform, api): changes nothing
OSC_INIT ==
    /\ cyc.pc = "idle"
    /\ UNCHANGED firstOscVars
    /\ UNCHANGED <<delayVars, oscVars, triVars, squareVars>>

\* OSC_NOTEON(params), at any point of a block or between blocks
OSC_NOTEON ==
    /\ nparams < MaxEvents
    /\ s_osc' = [s_osc EXCEPT !.state.flags = @ \cup k_flag_reset]
    /\ nparams' = nparams + 1
    /\ UNCHANGED <<cyc, yout, yplan, ncycles>>
    /\ UNCHANGED <<delayVars, oscVars, triVars, squareVars>>

\* OSC_NOTEOFF(params): changes nothing
OSC_NOTEOFF ==
    /\ UNCHANGED firstOscVars
    /\ UNCHANGED <<delayVars, oscVars, triVars, squareVars>>

\* OSC_PARAM(index, value), at any point of a block or between blocks
OSC_PARAM ==
    /\ nparams < MaxEvents
    /\ \E index \in UserParamIds, value \in UserRawValues :
         s_osc' = IF index = "k_user_osc_param_shape"
                  THEN [s_osc EXCEPT !.params.saw_tri_mix = param_val_to_f32(value)]
                  ELSE s_osc
    /\ nparams' = nparams + 1
    /\ UNCHANGED <<cyc, yout, yplan, ncycles>>
    /\ UNCHANGED <<delayVars, oscVars, triVars, squareVars>>

\* OSC_CYCLE(params, yn, frames), line 31: const uint32_t flags = s.flags
OSC_CYCLE_ReadFlags ==
    /\ cyc.pc = "idle"
    /\ ncycles < MaxBlocks
    /\ \E frames \in OscFrameCounts, pitch \in Pitches :
         cyc' = [pc |-> "clear", flags |-> s_osc.state.flags, frames |-> frames,
                 pitch |-> pitch, phi |-> 0]
    /\ yout' = <<>>
    /\ ncycles' = ncycles + 1
    /\ UNCHANGED <<s_osc, yplan, nparams>>
    /\ UNCHANGED <<delayVars, oscVars, triVars, squareVars>>

\* OSC_CYCLE, line 32: s.flags = k_flags_none
OSC_CYCLE_ClearFlags ==
    /\ cyc.pc = "clear"
    /\ s_osc' = [s_osc EXCEPT !.state.flags = k_flags_none]
    /\ cyc' = [cyc EXCEPT !.pc = "update"]
    /\ UNCHANGED <<yout, yplan, ncycles, nparams>>
    /\ UNCHANGED <<delayVars, oscVars, triVars, squareVars>>

\* OSC_CYCLE, lines 35-44: updatePitch, note reset, float phi = s.phi
OSC_CYCLE_Update ==
    /\ cyc.pc = "update"
    /\ \E s1 \in {MyOsc_updatePitch(s_osc.state,
                        osc_w0f_for_note(cyc.pitch \div 256, cyc.pitch % 256))} :
         \E s2 \in {IF k_flag_reset \subseteq cyc.flags THEN MyOsc_reset(s1) ELSE s1} :
            /\ s_osc' = [s_osc EXCEPT !.state = s2]
            /\ cyc' = [cyc EXCEPT !.pc = "loop", !.phi = s2.phi]
            /\ yplan' = PlanSamples(s2.phi, s2.w, s_osc.params.saw_tri_mix, cyc.frames)
    /\ UNCHANGED <<yout, ncycles, nparams>>
    /\ UNCHANGED <<delayVars, oscVars, triVars, squareVars>>

\* OSC_CYCLE, lines 49-63: one pass of the sample loop; the last pass is
\* followed by s.phi = phi
OSC_CYCLE_Sample ==
    /\ cyc.pc = "loop"
    /\ yout' = Append(yout, CycleSample(cyc.phi, s_osc.params.saw_tri_mix))
    /\ \E phi \in {(cyc.phi + s_osc.state.w) % Unit} :
         IF Len(yout) + 1 = cyc.frames
         THEN /\ cyc' = [cyc EXCEPT !.pc = "idle", !.phi = phi]
              /\ s_osc' = [s_osc EXCEPT !.state.phi = phi]
         ELSE /\ cyc' = [cyc EXCEPT !.phi = phi]
              /\ UNCHANGED s_osc
    /\ UNCHANGED <<yplan, ncycles, nparams>>
    /\ UNCHANGED <<delayVars, oscVars, triVars, squareVars>>

FirstOscNext ==
    \/ OSC_INIT
    \/ OSC_NOTEON
    \/ OSC_NOTEOFF
    \/ OSC_PARAM
    \/ OSC_CYCLE_ReadFlags
    \/ OSC_CYCLE_ClearFlags
    \/ OSC_CYCLE_Update
    \/ OSC_CYCLE_Sample

(***************************************************************************)
(* osc_trif over the phases of one cycle                                   *)
(***************************************************************************)
TriInit == tri = [x |-> 0, y |-> osc_trif(0), px |-> 0, py |-> osc_trif(0)]

\* osc_trif called with the next phase of the grid
TriNextPhase ==
    /\ tri.x + 1 < Unit
    /\ tri' = [x |-> tri.x + 1, y |-> osc_trif(tri.x + 1), px |-> tri.x, py |-> tri.y]
    /\ UNCHANGED <<delayVars, oscVars, firstOscVars, squareVars>>

(***************************************************************************)
(* Square oscillator (minilogue-xd/square/square.cpp)                      *)
(*                                                                         *)
(* Its floats are carried as binary32 values, so that the rounding of      *)
(* every operation is the one the code performs.                           *)
(***************************************************************************)
\* binary32 values: [s, m, e] stands for (-1)^s * m * 2^e, with m = 0 (zero)
\* or 2^23 <= m < 2^24.  Infinities, NaN and subnormals are not represented.
F32(s, m, e) == [s |-> s, m |-> m, e |-> e]

F32Zero == F32(0, 0, 0)

\* mag with its lowest digit set when digits below it were dropped
F32Jam(mag, inexact) == IF inexact /\ mag % 2 = 0 THEN mag + 1 ELSE mag

\* (-1)^s * mag * 2^e rounded to 24 significant digits, ties to even
F32Round(s, mag, e) ==
    IF mag = 0 THEN F32Zero
    ELSE LET n == BitLen(mag)
         IN  IF n <= 24
             THEN F32(s, mag * 2^(24 - n), e - (24 - n))
             ELSE LET k    == n - 24
                      q    == mag \div 2^(k)
                      r    == mag % 2^(k)
                      half == 2^(k - 1)
                      m    == IF r > half \/ (r = half /\ q % 2 = 1)
                              THEN q + 1 ELSE q
                  IN  IF m = 2^(24) THEN F32(s, 2^(23), e + k + 1)
                      ELSE F32(s, m, e + k)

\* (float)n of an integer n
F32FromInt(n) == IF n < 0 THEN F32Round(1, -n, 0) ELSE F32Round(0, n, 0)

F32Neg(a) == IF a.m = 0 THEN a ELSE [a EXCEPT !.s = 1 - a.s]

\* a + b
F32Add(a, b) ==
    IF a.m = 0 THEN b
    ELSE IF b.m = 0 THEN a
    ELSE LET aBig  == a.e > b.e \/ (a.e = b.e /\ a.m >= b.m)
             big   == IF aBig THEN a ELSE b
             small == IF aBig THEN b ELSE a
             d     == big.e - small.e
             A     == big.m * 8
             B     == IF d >= 27 THEN 1
                      ELSE F32Jam((small.m * 8) \div 2^(d),
                                  (small.m * 8) % 2^(d) # 0)
             S     == IF big.s = small.s THEN A + B ELSE A - B
         IN  F32Round(big.s, S, big.e - 3)

\* a - b
F32Sub(a, b) == F32Add(a, F32Neg(b))

\* a * b: the 48-digit product of the significands from 12-digit halves
F32Mul(a, b) ==
    IF a.m = 0 \/ b.m = 0 THEN F32Zero
    ELSE LET a1    == a.m \div 2^(12)
             a0    == a.m % 2^(12)
             b1    == b.m \div 2^(12)
             b0    == b.m % 2^(12)
             cross == a1 * b0 + a0 * b1
             low   == (cross % 2^(12)) * 2^(12) + a0 * b0
             H     == a1 * b1 + cross \div 2^(12) + low \div 2^(24)
             L     == low % 2^(24)
         IN  F32Round((a.s + b.s) % 2,
                      F32Jam(H * 8 + L \div 2^(21), L % 2^(21) # 0),
                      a.e + b.e + 21)

RECURSIVE F32DivSteps(_, _, _, _)
\* n further binary digits of the quotient rem / den (rem < 2 * den)
F32DivSteps(rem, den, n, quo) ==
    IF n = 0 THEN F32Jam(quo, rem # 0)
    ELSE IF rem >= den THEN F32DivSteps(2 * (rem - den), den, n - 1, 2 * quo + 1)
    ELSE F32DivSteps(2 * rem, den, n - 1, 2 * quo)

\* a / b for b # 0
F32Div(a, b) ==
    IF a.m = 0 THEN F32Zero
    ELSE F32Round((a.s + b.s) % 2, F32DivSteps(a.m, b.m, 27, 0), a.e - b.e - 26)

\* -1, 0 or 1: the sign of a
F32Sign(a) == IF a.m = 0 THEN 0 ELSE IF a.s = 1 THEN -1 ELSE 1

\* a < b, a <= b
F32Lt(a, b) == F32Sign(F32Sub(a, b)) < 0

F32Le(a, b) == F32Sign(F32Sub(a, b)) <= 0

\* (uint32_t)a of a non-negative a below 2^31: truncation
F32ToU32(a) ==
    IF a.m = 0 THEN 0
    ELSE IF a.e >= 0 THEN a.m * 2^(a.e)
    ELSE IF -a.e > 24 THEN 0
    ELSE a.m \div 2^(-a.e)

\* The float literals of square.cpp
f0_1 == F32(0, 13421773, -27)

f0_8 == F32(0, 13421773, -24)

f0_9 == F32(0, 15099494, -24)

f1_0 == F32(0, 2^(23), -23)

\* enum { k_flag_none = 0, k_flag_reset = 1<<0 }
k_flag_none == {}

\* param_val_to_f32(val) = ((uint16_t)val * 9.77517106549365e-004f)
Square_param_val_to_f32(value) == F32Mul(F32FromInt(value), F32(0, 8396808, -33))

\* q31_to_f32(q) = ((float)(q) * 4.65661287307739e-010f), the factor being 2^-31
Square_q31_to_f32(q) == F32Mul(F32FromInt(q), F32(0, 2^(23), -54))

\* f32_to_q31(f) = ((q31_t)((float)(f) * (float)0x7FFFFFFF)), for |f| <= 1: the
\* set of results.  (float)0x7FFFFFFF is 2^31; the product of +1.0 is not a
\* q31_t, and the conversion gives the largest or the smallest q31_t.
Square_f32_to_q31(f) ==
    IF f.m = 0 THEN {0}
    ELSE IF f.e + 31 >= 8
         THEN IF f.s = 1 THEN {-(2^(30) - 1) - (2^(30) - 1) - 2}
              ELSE {(2^(30) - 1) + 2^(30), -(2^(30) - 1) - (2^(30) - 1) - 2}
    ELSE LET mag == IF f.e + 31 >= 0 THEN f.m * 2^(f.e + 31)
                    ELSE IF -(f.e + 31) > 24 THEN 0
                    ELSE f.m \div 2^(-(f.e + 31))
         IN  {IF f.s = 1 THEN -mag ELSE mag}

\* Variant of the clip: no upper limit.
Square_clipNoMax(min, x, max) == IF F32Le(x, min) THEN min ELSE x

\* clipminmaxf(min, x, max) = (x >= max) ? max : (x <= min) ? min : x
Square_clipminmaxf(min, x, max) ==
    IF F32Le(max, x) THEN max ELSE IF F32Le(x, min) THEN min ELSE x

\* osc_w0f_for_note(note, mod) as a float
Square_w0f_for_note(note, mod) ==
    F32Div(F32FromInt(osc_w0f_for_note(note, mod)), F32FromInt(Unit))

\* Raw 10-bit values the host sends with OSC_PARAM.
SquareRawValues == {0, 512, 1023}

\* Values of params->shape_lfo: 0.5 and -0.5 as q31.
ShapeLfos == {2^(30), -2^(30)}

RECURSIVE SquareLoop(_, _, _, _, _, _, _, _)
\* OSC_CYCLE lines 81-94: n further samples
SquareLoop(n, w0, duty, angle, lfo_inc, phase, lfoz, acc) ==
    IF n = 0 THEN [phase |-> phase, lfoz |-> lfoz, out |-> acc]
    ELSE LET pwm  == Square_clipminmaxf(f0_1, F32Add(duty, lfoz), f0_9)
             step == IF F32Sign(F32Sub(phase, pwm)) <= 0 THEN f1_0 ELSE F32Neg(f1_0)
             sig  == F32Mul(step, F32Sub(f1_0, F32Mul(angle, phase)))
             adv  == F32Add(phase, w0)
         IN  SquareLoop(n - 1, w0, duty, angle, lfo_inc,
                        F32Sub(adv, F32FromInt(F32ToU32(adv))),
                        F32Add(lfoz, lfo_inc),
                        Append(acc, [pwm |-> pwm, phase |-> phase, sig |-> sig]))

\* The samples written to yn: each one of the results of f32_to_q31(sig).
SquareWritten(out) ==
    {ys \in [1 .. Len(out) -> UNION {Square_f32_to_q31(out[i].sig) : i \in 1 .. Len(out)}] :
        \A i \in 1 .. Len(out) : ys[i] \in Square_f32_to_q31(out[i].sig)}

\* static State s_state, before any call
SquareInit ==
    /\ s_state = [w0 |-> F32Zero, phase |-> F32Zero, duty |-> F32Zero,
                  angle |-> F32Zero, lfo |-> F32Zero, lfoz |-> F32Zero,
                  flags |-> k_flag_none]
    /\ sqcyc = [pc |-> "idle", flags |-> k_flag_none, frames |-> 0, pitch |-> 0,
                shape_lfo |-> 0]
    /\ sqout = <<>>
    /\ sqinit = FALSE
    /\ sqcalls = 0

\* OSC_INIT(platform, api), between cycles
Square_OSC_INIT ==
    /\ sqcyc.pc = "idle"
    /\ s_state' = [w0 |-> F32Zero, phase |-> F32Zero, duty |-> f0_1,
                   angle |-> F32Zero, lfo |-> F32Zero, lfoz |-> F32Zero,
                   flags |-> k_flag_none]
    /\ sqinit' = TRUE
    /\ UNCHANGED <<sqcyc, sqout, sqcalls>>
    /\ UNCHANGED <<delayVars, oscVars, firstOscVars, triVars>>

\* OSC_NOTEON(params), at any point of a cycle or between cycles
Square_OSC_NOTEON ==
    /\ sqcalls < MaxSquareCalls
    /\ s_state' = [s_state EXCEPT !.flags = @ \cup k_flag_reset]
    /\ sqcalls' = sqcalls + 1
    /\ UNCHANGED <<sqcyc, sqout, sqinit>>
    /\ UNCHANGED <<delayVars, oscVars, firstOscVars, triVars>>

\* OSC_NOTEOFF(params)
Square_OSC_NOTEOFF ==
    /\ sqcalls < MaxSquareCalls
    /\ sqcalls' = sqcalls + 1
    /\ UNCHANGED <<s_state, sqcyc, sqout, sqinit>>
    /\ UNCHANGED <<delayVars, oscVars, firstOscVars, triVars>>

\* The state after OSC_PARAM(index, value)
SquareParam(s, index, value) ==
    LET valf == Square_param_val_to_f32(value)
    IN  CASE index = "k_user_osc_param_shape" ->
               [s EXCEPT !.duty = F32Add(f0_1, F32Mul(valf, f0_8))]
          [] index = "k_user_osc_param_shiftshape" ->
               [s EXCEPT !.angle = F32Mul(f0_8, valf)]
          [] OTHER -> s

\* OSC_PARAM(index, value), at any point of a cycle or between cycles
Square_OSC_PARAM ==
    /\ sqcalls < MaxSquareCalls
    /\ \E index \in UserParamIds, value \in SquareRawValues :
         s_state' = SquareParam(s_state, index, value)
    /\ sqcalls' = sqcalls + 1
    /\ UNCHANGED <<sqcyc, sqout, sqinit>>
    /\ UNCHANGED <<delayVars, oscVars, firstOscVars, triVars>>

\* OSC_CYCLE(params, yn, frames), line 57: const uint8_t flags = s_state.flags
Square_OSC_CYCLE_ReadFlags ==
    /\ sqcyc.pc = "idle"
    /\ sqcalls < MaxSquareCalls
    /\ \E frames \in OscFrameCounts, pitch \in Pitches, shape_lfo \in ShapeLfos :
         sqcyc' = [pc |-> "clear", flags |-> s_state.flags, frames |-> frames,
                   pitch |-> pitch, shape_lfo |-> shape_lfo]
    /\ sqcalls' = sqcalls + 1
    /\ UNCHANGED <<s_state, sqout, sqinit>>
    /\ UNCHANGED <<delayVars, oscVars, firstOscVars, triVars>>

\* OSC_CYCLE, lines 58-97: the flag field is cleared, the block is rendered
\* from local copies and phase and lfoz are stored back
Square_OSC_CYCLE_Render ==
    /\ sqcyc.pc = "clear"
    /\ LET w0    == Square_w0f_for_note(sqcyc.pitch \div 256, sqcyc.pitch % 256)
           reset == k_flag_reset \subseteq sqcyc.flags
           phase == IF reset THEN F32Zero ELSE s_state.phase
           lfo   == Square_q31_to_f32(sqcyc.shape_lfo)
           lfoz  == IF reset THEN lfo ELSE s_state.lfoz
           inc   == F32Div(F32Sub(lfo, lfoz), F32FromInt(sqcyc.frames))
       IN  \E r \in {SquareLoop(sqcyc.frames, w0, s_state.duty, s_state.angle,
                                inc, phase, lfoz, <<>>)} :
             /\ s_state' = [s_state EXCEPT !.flags = k_flag_none, !.w0 = w0,
                                           !.lfo = lfo, !.phase = r.phase,
                                           !.lfoz = r.lfoz]
             /\ \E ys \in SquareWritten(r.out) :
                  sqout' = [i \in 1 .. Len(r.out) |->
                               [pwm |-> r.out[i].pwm, phase |-> r.out[i].phase,
                                sig |-> r.out[i].sig, y |-> ys[i]]]
    /\ sqcyc' = [sqcyc EXCEPT !.pc = "idle"]
    /\ UNCHANGED <<sqinit, sqcalls>>
    /\ UNCHANGED <<delayVars, oscVars, firstOscVars, triVars>>

SquareNext ==
    \/ Square_OSC_INIT
    \/ Square_OSC_NOTEON
    \/ Square_OSC_NOTEOFF
    \/ Square_OSC_PARAM
    \/ Square_OSC_CYCLE_ReadFlags
    \/ Square_OSC_CYCLE_Render

vars == <<delayVars, oscVars, firstOscVars, triVars, squareVars>>

AllInit == DelayInit /\ OscInit /\ FirstOscInit /\ TriInit /\ SquareInit

\* osc_trif called with every phase in [0, 1), in ascending order.
SpecTriangle == AllInit /\ [][TriNextPhase]_vars

\* The square oscillator under every call the host can make.
SpecSquare == AllInit /\ [][SquareNext]_vars

\* The delay under every call the host can make.
SpecDelay == AllInit /\ [][DelayNext]_vars

\* The delay-time scenario.
SpecDelayTime == AllInit /\ [][TimeNext]_vars

\* The impulse-response scenario of the delay.
SpecImpulse == AllInit /\ [][ImpulseNext]_vars

\* The oscillator with event callbacks arriving at any point of a block.
SpecOsc == AllInit /\ [][OscNext]_vars

\* The saw/triangle oscillator with event callbacks arriving at any point of
\* a block.
SpecFirstOsc == AllInit /\ [][FirstOscNext]_vars

(***************************************************************************)
(* Delay: properties                                                       *)
(***************************************************************************)
\* C1: every buffer cell at an index i with activeLength <= i < capacity
\* holds zero, in every state reachable by initialize, processBlock and
\* time-parameter updates.
C1_ZeroBeyondActive ==
    \A i \in Cells : i >= delay_s.time_samples => delay_s.buffer[i] = 0

\* C2: after the line was filled with nonzero data at length L1, shortened to
\* L2 and lengthened back to L1, the wet tap read at each index in L2..L1-1 on
\* the first pass is 0 (fresh lists exactly those reads).
C2_NoStaleTap ==
    \A k \in 1 .. Len(fresh) : fresh[k].wet = 0

\* C7: 0 <= writeIndex < activeLength after initialize and any sequence of
\* processBlock calls and time / feedback / mix parameter updates.
C7_IndexInRange ==
    /\ 0 <= delay_s.index
    /\ delay_s.index < delay_s.time_samples

\* C7 witness: a block has wrapped the index past the last active cell of a
\* line of more than one cell.
C7_Wrapped ==
    /\ lastcall = "process"
    /\ delay_s.time_samples > 1
    /\ delay_s.index < xin.frames

\* C8: 1 <= activeLength <= capacity after initialize and any sequence of
\* time-parameter updates with any raw value.
C8_LengthInRange ==
    /\ 1 <= delay_s.time_samples
    /\ delay_s.time_samples <= kDelayBufferSize

\* C8 witness: the time parameter was set to the raw minimum, the shortest line.
C8_ShortestLine ==
    /\ lastcall = "param"
    /\ delay_s.time_samples = f32_to_u32(k_samplerate * Lit(1, 1000))

\* C9: 0 <= feedbackGain < 1 after any sequence of feedback-parameter updates
\* with any raw value.
C9_FeedbackClamped ==
    /\ 0 <= delay_s.feedback
    /\ delay_s.feedback < Unit

\* The frame that wrote cell i last in a block of n frames that began at
\* index i0 of a line of length len (0 when no frame of the block wrote it).
LastHit(i, i0, len, n) ==
    LET o == (i - i0) % len
    IN  IF i >= len \/ o >= n THEN 0
        ELSE o + 1 + len * ((n - o - 1) \div len)

\* What C10 asks of one DELFX_PROCESS call that takes the delay from d to e on
\* n frames of input pattern pat, leaving the block out and reading the taps t.
FrameContract(d, e, out, t, pat, n) ==
    /\ Len(t) = n
    /\ Len(out) = 2 * n
    /\ \A k \in 1 .. n :
          LET x   == InSample(pat, 2 * k - 1)
              idx == (d.index + k - 1) % d.time_samples
              old == IF k > d.time_samples
                     THEN Mul(d.feedback, t[k - d.time_samples]
                                          + InSample(pat, 2 * (k - d.time_samples) - 1))
                     ELSE d.buffer[idx]
          IN  /\ t[k] = old
              /\ out[2 * k - 1] = Mul(d.dry_mix, x) + Mul(d.wet_mix, old)
              /\ out[2 * k] = out[2 * k - 1]
    /\ e.index = (d.index + n) % d.time_samples
    /\ \A i \in Cells :
          LET k == LastHit(i, d.index, d.time_samples, n)
          IN  e.buffer[i] = IF k = 0 THEN d.buffer[i]
                            ELSE Mul(d.feedback, t[k] + InSample(pat, 2 * k - 1))
    /\ e.time_samples = d.time_samples
    /\ e.feedback = d.feedback
    /\ e.wet_mix = d.wet_mix
    /\ e.dry_mix = d.dry_mix

\* C10: each frame with input x and pre-step state (buffer, writeIndex)
\* overwrites both channels with dryMix*x + wetMix*buffer[writeIndex], then sets
\* buffer[writeIndex] to feedbackGain*(old buffer[writeIndex] + x), then
\* writeIndex to (writeIndex+1) mod activeLength; one such step per frame, and
\* no other buffer cell changes.
C10_FrameContract ==
    [][ lastcall' = "process" =>
          FrameContract(delay_s, delay_s', xn', taps', xin'.pat, xin'.frames)
      ]_delayVars

\* C10 witness: a frame with nonzero input has read a nonzero delayed sample
\* that an earlier frame of the same block wrote.
C10_EchoFrame ==
    /\ lastcall = "process"
    /\ \E k \in 1 .. Len(taps) :
          /\ k > delay_s.time_samples
          /\ taps[k] # 0
          /\ InSample(xin.pat, 2 * k - 1) # 0

(***************************************************************************)
(* Oscillator: properties                                                  *)
(***************************************************************************)
\* A raised flag is pending while it is in the flag field, or in the copy a
\* block has read and not yet acted on.
FlagPending(f) ==
    \/ f \subseteq state_.flags
    \/ proc.pc \in {"clear", "update"} /\ f \subseteq proc.flags

\* C3: no raised flag is lost, whatever the interleaving of event callbacks
\* with the block start: a NoteOn not yet followed by a block that zeroes
\* the phases, and a shape change not yet followed by a block that recomputes
\* max_detune, still have their flag pending.
C3_NoLostFlag ==
    /\ hist.owedReset => FlagPending(k_flag_reset)
    /\ hist.owedDetune => FlagPending(k_flag_max_detune)

\* C4: a NoteOn made after a block has read and cleared the flags changes no
\* phase and no sample of that block (the phases and samples are those fixed
\* when the sample loop began), its flag stays raised for the rest of the
\* block, and the next block zeroes the phases before its first sample.
C4_MidBlockDeferred ==
    /\ proc.pc = "loop" => state_.phi = hist.plan[Len(outbuf) + 1]
    /\ proc.pc \in {"loop", "idle"} =>
          \A k \in 1 .. Len(outbuf) : outbuf[k] = SampleOf(hist.plan[k])
    /\ hist.lateNew => k_flag_reset \subseteq state_.flags
    /\ hist.lateOld => proc.pc \in {"clear", "update"} /\ k_flag_reset \subseteq proc.flags
    /\ proc.pc = "loop" /\ hist.carried => hist.didReset /\ hist.plan[1] = ZeroPhases

\* A NoteOn came while the phases were not all zero, and the block has
\* written a sample since.
C4_LateNoteOn ==
    /\ hist.lateNew
    /\ Len(outbuf) > hist.lateAt
    /\ Len(hist.plan) > hist.lateAt
    /\ hist.plan[hist.lateAt + 1] # ZeroPhases

\* C5: a block zeroes the phases before its first sample exactly when a
\* NoteOn was made since the previous block read the flags.
C5_ResetIffNoteOn ==
    proc.pc = "loop" => (hist.didReset <=> hist.due)

(***************************************************************************)
(* Saw/triangle oscillator: properties                                     *)
(***************************************************************************)
\* C6: an event delivered while a block is being rendered changes no sample
\* of that block: every sample the block writes is the one fixed by the state
\* and the parameters as they were when its sample loop began.
C6_EventsDeferred ==
    cyc.pc \in {"loop", "idle"} =>
        \A k \in 1 .. Len(yout) : yout[k] = yplan[k]

(***************************************************************************)
(* Delay: impulse response                                                 *)
(***************************************************************************)
RECURSIVE NEchoes(_, _, _, _)
\* How many of the outputs v, 0.2 v, 0.04 v, ... at frames pos, pos + len,
\* pos + 2 len, ... are not zero and fall within the first n frames.
NEchoes(v, pos, n, len) ==
    IF v = 0 \/ pos > n THEN 0
    ELSE 1 + NEchoes(Mul(Lit(2, 10), v), pos + len, n, len)

\* C11: from a zeroed buffer with feedback 0.2 and wet mix 0.5, a unit
\* impulse followed by silence gives nonzero output exactly at the impulse
\* frame and every time_samples frames after it, on both channels alike: the
\* impulse frame outputs 0.5, each later one 0.2 times the one before, and
\* every other frame outputs zero.
C11_EchoTrain ==
    /\ \A k \in 1 .. Len(echo.hits) :
          /\ echo.hits[k].at = 1 + (k - 1) * delay_s.time_samples
          /\ echo.hits[k].r = echo.hits[k].l
          /\ echo.hits[k].l = IF k = 1 THEN Lit(5, 10)
                              ELSE Mul(Lit(2, 10), echo.hits[k - 1].l)
    /\ Len(echo.hits) = NEchoes(Lit(5, 10), 1, echo.n, delay_s.time_samples)

\* The impulse and two echoes have been output, with silent frames between.
C11_ThirdEcho ==
    /\ Len(echo.hits) >= 3
    /\ delay_s.time_samples > 1

(***************************************************************************)
(* Delay: the mix and feedback setters                                     *)
(***************************************************************************)
\* C12: dry_mix = 1 - wet_mix after initialize and after every sequence of
\* parameter updates and process calls.
C12_DryIsOneMinusWet == delay_s.dry_mix = Unit - delay_s.wet_mix

\* The mix was set to fully wet.
C12_MixSet ==
    /\ lastcall = "param"
    /\ lastparam.index = "shift_depth"
    /\ delay_s.wet_mix = Unit

\* C13: the depth parameter changes only the feedback gain and the
\* shift_depth parameter only the wet and dry mix (buffer, index and
\* time_samples keep their values), and making the same call again leaves the
\* state as the first call left it.
C13_PureSetters ==
    [][ lastcall' = "param" =>
          /\ lastparam'.index = "depth" =>
                delay_s' = [delay_s EXCEPT !.feedback = delay_s'.feedback]
          /\ lastparam'.index = "shift_depth" =>
                delay_s' = [delay_s EXCEPT !.wet_mix = delay_s'.wet_mix,
                                           !.dry_mix = delay_s'.dry_mix]
          /\ lastparam'.index \in {"depth", "shift_depth"} =>
                Param(delay_s', lastparam'.index, lastparam'.value) = delay_s'
      ]_delayVars

\* A setter changed the feedback of a line that holds samples and whose index
\* has advanced.
C13_SetterOnUsedLine ==
    /\ lastcall = "param"
    /\ lastparam.index = "depth"
    /\ delay_s.feedback # Lit(2, 10)
    /\ delay_s.index # 0
    /\ \E i \in Cells : delay_s.buffer[i] # 0

(***************************************************************************)
(* Oscillator: phases                                                      *)
(***************************************************************************)
\* C14: every voice phase is in [0, 1) after every sample of every block,
\* whatever the (non-negative) increments, and advancing the phase 0.9 by
\* the increment 0.3 gives 0.2.
C14_PhaseInRange ==
    /\ \A i \in Voices : 0 <= state_.phi[i] /\ state_.phi[i] < Unit
    /\ Advance([i \in Voices |-> Lit(9, 10)], [i \in Voices |-> Lit(3, 10)])
          = [i \in Voices |-> Lit(2, 10)]

\* The last sample advanced a voice by more than one whole cycle.
C14_Wrapped ==
    /\ proc.pc \in {"loop", "idle"}
    /\ Len(outbuf) >= 1
    /\ \E i \in Voices :
          /\ state_.w[i] > Unit
          /\ state_.phi[i] = (hist.plan[Len(outbuf)][i] + state_.w[i]) % Unit

(***************************************************************************)
(* Oscillator: Init                                                        *)
(***************************************************************************)
\* C15: Init leaves the oscillator as constructed, whatever came before:
\* phases and increments zero, no flag pending, max_detune and both
\* parameters at their defaults.
C15_InitRestores ==
    [][ Osc_Init =>
          /\ state_' = [phi |-> ZeroPhases, w |-> [i \in Voices |-> 0],
                        max_detune |-> kMinDetune, flags |-> k_flags_none]
          /\ params_' = [shape |-> 0, alt |-> 0]
      ]_vars

(***************************************************************************)
(* Delay: what the parameter entry point writes                            *)
(***************************************************************************)
\* C16: no event entry point changes the audio state the block processor
\* owns: a DELFX_PARAM call leaves the delay buffer and its write index as
\* they were.
C16_EventsLeaveAudioState ==
    [][ lastcall' = "param" =>
          /\ delay_s'.buffer = delay_s.buffer
          /\ delay_s'.index = delay_s.index
      ]_delayVars

\* C17: a DELFX_PARAM call with an index the unit does not know leaves the
\* whole delay state and the sample block unchanged.
C17_UnknownParamIgnored ==
    [][ lastcall' = "param" /\ lastparam'.index = "other" =>
          /\ delay_s' = delay_s
          /\ xn' = xn
      ]_delayVars

\* An unknown index was sent to a line that holds samples and whose mix is
\* not the one the raw value would give.
C17_UnknownParamSent ==
    /\ lastcall = "param"
    /\ lastparam.index = "other"
    /\ delay_s.wet_mix # q31_to_f32(lastparam.value)
    /\ delay_s.index # 0
    /\ \E i \in Cells : delay_s.buffer[i] # 0

(***************************************************************************)
(* Oscillator: detune                                                      *)
(***************************************************************************)
\* C18: with one voice the increment is the base increment w for every
\* spread.  With N > 1 voices and spread width D, voice i is offset by
\* -D/2 + i*D/(N-1) octaves (to within the resolution of the arithmetic, one
\* unit per operation), the offsets of voices i and N-1-i cancel, and the
\* increment of voice i is w * 2^offset_i; three voices with D = 8 are
\* offset by -4, 0 and +4.
C18_DetuneSpread ==
    [][ Process_Update =>
          LET w0 == osc_w0f_for_note(ctxt.pitch \div 256, ctxt.pitch % 256)
              D  == linintf(clipminmaxf(0, params_.alt, Unit), 0, state_'.max_detune)
              N  == NVoices
          IN  /\ Increments(1, params_.alt, state_'.max_detune, w0) = [i \in 0 .. 0 |-> w0]
              /\ N > 1 => \A i \in Voices :
                    /\ state_'.w[i] = Mul(w0, fasterpow2f(DetuneOffset(D, N, i)))
                    /\ Abs(2 * (N - 1) * DetuneOffset(D, N, i) - (2 * i - (N - 1)) * D)
                          <= 2 * (N - 1) * N
                    /\ Abs(DetuneOffset(D, N, i) + DetuneOffset(D, N, N - 1 - i)) <= N
              /\ DetuneOffset(Lit(8, 1), 3, 0) = -Lit(4, 1)
              /\ DetuneOffset(Lit(8, 1), 3, 1) = 0
              /\ DetuneOffset(Lit(8, 1), 3, 2) = Lit(4, 1)
      ]_vars

\* A block has spread its voices over the widest range: the last voice runs
\* more than 2^7 times as fast as the first.
C18_WidestSpread ==
    /\ proc.pc = "loop"
    /\ NVoices > 1
    /\ state_.w[0] > 0
    /\ state_.w[NVoices - 1] > Pow2(7) * state_.w[0]

(***************************************************************************)
(* Triangle generator                                                      *)
(***************************************************************************)
\* C19: for every phase in [0, 1) the triangle value is in [-1, 1]; it is +1
\* at phase 0.25 and -1 at phase 0.75, and the values at neighbouring phases
\* differ by at most 4 times the distance of the phases, across the segment
\* boundaries too.
C19_TriangleContinuous ==
    /\ -Unit <= tri.y /\ tri.y <= Unit
    /\ tri.x = Lit(25, 100) => tri.y = Unit
    /\ tri.x = Lit(75, 100) => tri.y = -Unit
    /\ Abs(tri.y - tri.py) <= 4 * (tri.x - tri.px)

\* Both segment boundaries have been passed.
C19_PastBoundaries ==
    /\ tri.px = Lit(75, 100)
    /\ tri.py = -Unit
    /\ tri.y > tri.py

(***************************************************************************)
(* Oscillator: the detune range                                            *)
(***************************************************************************)
\* C20: a block works on the flags as they were when it began; it sets
\* max_detune to lerp(shape, kMinDetune, kMaxDetune) for the current shape
\* exactly when the max_detune flag was among them, it computes the
\* increments of its samples from the max_detune it has then, and no other
\* step of a block changes max_detune.
C20_DetuneRangeAtBlockStart ==
    [][ /\ Process_ReadFlags => proc'.flags = state_.flags
        /\ Process_ClearFlags \/ Process_Sample =>
              /\ proc'.flags = proc.flags
              /\ state_'.max_detune = state_.max_detune
              /\ state_'.w = state_.w
        /\ Process_Update =>
              /\ state_'.max_detune =
                    IF k_flag_max_detune \subseteq proc.flags
                    THEN linintf(params_.shape, kMinDetune, kMaxDetune)
                    ELSE state_.max_detune
              /\ state_'.w = Increments(NVoices, params_.alt, state_'.max_detune,
                        osc_w0f_for_note(ctxt.pitch \div 256, ctxt.pitch % 256))
      ]_vars

\* A block that found the flag has widened the range and is rendering with
\* increments spread over it.
C20_RangeRecomputed ==
    /\ proc.pc = "loop"
    /\ k_flag_max_detune \subseteq proc.flags
    /\ state_.max_detune > kMinDetune
    /\ params_.alt > 0
    /\ Len(outbuf) >= 1

(***************************************************************************)
(* Oscillator: pitch                                                       *)
(***************************************************************************)
\* C21: every block, with or without a pending flag, computes the increments
\* of all voices from the pitch the host reports for it, before it writes
\* its first sample; every sample of the block advances the phases by these
\* increments, which nothing changes while the block is in its sample loop.
C21_PitchEveryBlock ==
    [][ /\ Process_Update =>
              /\ outbuf = <<>>
              /\ state_'.w = Increments(NVoices, params_.alt, state_'.max_detune,
                        osc_w0f_for_note(ctxt.pitch \div 256, ctxt.pitch % 256))
        /\ proc.pc = "loop" => state_'.w = state_.w
        /\ Process_Sample =>
              /\ proc.pc = "loop"
              /\ state_'.phi = Advance(state_.phi, state_.w)
      ]_vars

\* A block that found no flag follows a one-frame block at the lower note
\* and renders at the increment of the higher note.
C21_NewPitchNoFlag ==
    /\ proc.pc = "loop"
    /\ proc.flags = k_flags_none
    /\ Len(outbuf) >= 1
    /\ hist.plan[1][0] = osc_w0f_for_note(60, 0)
    /\ ctxt.pitch = 72 * 256
    /\ state_.w[0] = osc_w0f_for_note(72, 0)

(***************************************************************************)
(* Multi-voice oscillator: the stored detune range                         *)
(***************************************************************************)
\* C22: whenever no k_flag_max_detune is pending, neither in the flag field
\* nor in the copy a started block has not yet acted on, the stored
\* max_detune is linintf(shape, kMinDetune, kMaxDetune) of the current shape.
C22_DetuneRangeCurrent ==
    ~FlagPending(k_flag_max_detune) =>
        state_.max_detune = linintf(params_.shape, kMinDetune, kMaxDetune)

(***************************************************************************)
(* Square oscillator: ranges                                               *)
(***************************************************************************)
\* lo <= x <= hi on floats
F32Within(lo, x, hi) == F32Le(lo, x) /\ F32Le(x, hi)

\* Every sample of the last block has its threshold in [0.1f, 0.9f] and is
\* +1 or -1 by phase <= threshold, times 1 - angle*phase of a magnitude in
\* [0, 1].
SquareSamplesInRange ==
    \A i \in 1 .. Len(sqout) :
        /\ F32Within(f0_1, sqout[i].pwm, f0_9)
        /\ F32Within(F32Neg(f1_0), sqout[i].sig, f1_0)
        /\ F32Sign(sqout[i].sig) = IF F32Le(sqout[i].phase, sqout[i].pwm) THEN 1 ELSE -1

\* C23: once OSC_INIT has run, whatever OSC_PARAM (raw values 0 .. 1023),
\* OSC_NOTEON and OSC_CYCLE calls follow, duty stays in [0.1f, 0.1f + 0.8f],
\* the float sum being one rounding step above 0.9f; angle stays in
\* [0, 0.8f], the threshold of every sample in [0.1f, 0.9f], and every
\* emitted sample has magnitude at most 1.
C23_SquareRanges ==
    sqinit =>
        /\ F32Within(f0_1, s_state.duty, F32Add(f0_1, f0_8))
        /\ F32Within(F32Zero, s_state.angle, f0_8)
        /\ SquareSamplesInRange

\* C23 as stated: duty stays in [0.1f, 0.9f].
C23_DutyAtMostNineTenths ==
    sqinit =>
        /\ F32Within(f0_1, s_state.duty, f0_9)
        /\ F32Within(F32Zero, s_state.angle, f0_8)
        /\ SquareSamplesInRange

\* After OSC_INIT and both parameters at their largest value, a block has
\* been rendered with the threshold clipped to 0.9f, a negative-going
\* sample tilted by the angle among its samples.
C23_FullScaleBlock ==
    /\ sqinit
    /\ F32Lt(f0_9, s_state.duty)
    /\ s_state.angle = f0_8
    /\ sqcyc.pc = "idle"
    /\ \E i \in 1 .. Len(sqout) :
          /\ sqout[i].pwm = f0_9
          /\ F32Lt(F32Zero, sqout[i].phase)
          /\ F32Lt(sqout[i].sig, f1_0)

=============================================================================
